---- MODULE Spec2Model ----
(***************************************************************************)
(* A model of the receiving side of a renoir block and the channel that    *)
(* feeds it:                                                               *)
(*   - StartBlock (src/src/operator/source/start.rs): setup and next;      *)
(*   - NetworkReceiver / NetworkSender (src/src/network/network_channel.rs)*)
(*     with the bounded in-memory queue, the Local and Remote senders and  *)
(*     the profiler calls made by send and recv.                           *)
(* The upstream replicas are the environment: each one sends batches of    *)
(* stream elements through its NetworkSender.                              *)
(*                                                                         *)
(* Further specifications over the same variables, each with its own       *)
(* initial states and next-state relation:                                 *)
(*   - ReceiverSpec: the receiving operations of NetworkReceiver (recv,    *)
(*     try_recv, recv_timeout, select, select_timeout) called by a         *)
(*     consumer on two receivers.                                          *)
(*   - ConfigSpec: the constructors of RuntimeConfig (src/src/config.rs):  *)
(*     from_args, local and remote, run once in an environment made of the *)
(*     variables NOIR_CONFIG and NOIR_HOST_ID and the configuration file.  *)
(*   - GraphSpec: JobGraphGenerator (src/src/block/graph_generator.rs):    *)
(*     blocks registered by add_block, then rendered by finalize.          *)
(* A specification leaves the variables of the other ones at their         *)
(* initial values.                                                         *)
(***************************************************************************)
EXTENDS Integers, Sequences, FiniteSets, TLC

(***************************************************************************)
(* Bounds of the model.                                                    *)
(***************************************************************************)
\* largest metadata.num_prev explored
MaxPrev == 2
\* total number of events of the upstream side in the mixed workload: a
\* stream element sent (an empty message counts one), a NetworkSender
\* dropped, the link of the multiplexer broken
MaxEvents == 3
\* largest number of elements in one NetworkMessage
MaxBatch == 2
\* largest watermark timestamp
MaxTs == 2
\* how many times next() is called again after it has returned End
MaxEndReturns == 1
\* ReceiverSpec, profiler enabled: messages sent to the two receivers
MaxRxMessages == 2
\* ReceiverSpec, profiler disabled: the senders keep up to MaxReady
\* messages waiting in each receiver
MaxReady == 2
\* ConfigSpec: most [[host]] tables in a configuration
MaxHosts == 2
\* ConfigSpec: most digits in the text of NOIR_HOST_ID
MaxDigits == 1
\* ConfigSpec: largest number of cores given to --local and to local()
MaxCores == 2
\* GraphSpec: largest block id
MaxBlockId == 2
\* GraphSpec: most add_block calls
MaxAdds == 3
\* BatchSpec: most blocks of a Stream
MaxBlocks == 3
\* BatchSpec: largest size and largest delay given to BatchMode::fixed and
\* BatchMode::adaptive
MaxBatchSize == 2
\* TopicSpec: most replicas of the source of rolling_top_words
MaxReplicas == 3
\* TopicSpec: most items a source replica generates before its ten seconds
\* are over
MaxGen == 21
\* in the flood workload one replica sends CHANNEL_CAPACITY + FloodExtra
\* single-item messages
FloodExtra == 2

(***************************************************************************)
(* Program constants.                                                      *)
(***************************************************************************)
\* network_channel.rs:15
CHANNEL_CAPACITY == 64

\* the Coord of the replica that runs the StartBlock
DstCoord == 0
\* the ReceiverEndpoint of the StartBlock's NetworkReceiver
ReceiverEndpoint == [coord |-> DstCoord, prev_block_id |-> 0]

\* the Coords of the upstream replicas
Coords == 1..MaxPrev

(***************************************************************************)
(* StreamElement: the variants the StartBlock tells apart (End) and the    *)
(* ones it forwards.  val is the payload: the per-sender sequence number   *)
(* of an Item, the timestamp of a Watermark, 0 otherwise.                  *)
(***************************************************************************)
Item(k) == [kind |-> "Item", val |-> k]
Watermark(ts) == [kind |-> "Watermark", val |-> ts]
End == [kind |-> "End", val |-> 0]
Terminate == [kind |-> "Terminate", val |-> 0]
\* Option::None for the last value returned by next()
NoElement == [kind |-> "None", val |-> 0]

\* NetworkMessage { sender, elements }
NetworkMessage(sender, elements) == [sender |-> sender, elements |-> elements]

\* NetworkMessage::num_items
num_items(message) == Len(message.elements)

VARIABLES
    \* ---- StartBlock ----
    metadata,       \* the ExecutionMetadata of the replica: [coord, num_prev]
    missing_ends,   \* usize
    buffer,         \* VecDeque<StreamElement>
    startState,     \* "new" (self.metadata is None) | "ready" | "panicked" | "dropped"
    inNext,         \* a call of next() is in progress (it recursed after an End)
    \* ---- the channel behind the NetworkReceiver ----
    queue,          \* the bounded queue of NetworkMessage
    rxAlive,        \* the Receiver half still exists
    \* ---- NetworkSender of each upstream replica ----
    impl,           \* "Local" | "Remote" per replica
    sstate,         \* "idle" | "blocked" | "failed" | "dropped" per replica
    pending,        \* the message of a send suspended on the full queue
    result,         \* the value of the replica's last completed send
    \* ---- multiplexer (remote senders) ----
    mux,            \* frames (endpoint, message) accepted and not yet delivered
    muxAlive,       \* the multiplexer still accepts frames
    \* ---- profiler ----
    items_out,      \* per (sender coord, destination coord)
    items_in,
    \* ---- environment ----
    workload,       \* "mixed" | "flood"
    quota,          \* events left to the upstream side
    nItems,         \* Items each replica has produced so far
    \* ---- history ----
    bufferFrom,     \* the sender of each element of buffer
    out,            \* what next() returned, in order: [el, from]
    endsConsumed,   \* End elements popped from the buffer
    passedLog,      \* per replica: the messages passed to send
    sentLog,        \* per replica: the messages send accepted (returned Ok)
    framesLost,     \* a frame accepted by the multiplexer was never delivered
    acceptLog,      \* the messages put into the queue, in order
    recvLog,        \* the messages recv took from the queue, in order
    panicMsg,       \* why next() panicked
    \* ---- ReceiverSpec: two NetworkReceivers and their consumer ----
    receivers,      \* the queue behind "self" and behind "other"
    profiling,      \* the profiler is enabled
    rx_items_in,    \* the profiler's items_in, per (sender coord, receiver coord)
    handed,         \* history: the messages handed to the consumer, per pair
    lastCall,       \* the consumer's last call: [op, got]
    rxQuota,        \* messages the senders may still send while profiling
    \* ---- ConfigSpec: the process environment and one constructor call ----
    envConfig,      \* the environment variable NOIR_CONFIG
    envHostId,      \* the environment variable NOIR_HOST_ID
    file,           \* the file at the path given to remote: its text, if any
    cfgCall,        \* the constructor called and its arguments
    cfgResult,      \* what the constructor returned, or how it aborted
    fileRead,       \* history: the file was read
    \* ---- GraphSpec: a JobGraphGenerator ----
    blocks,         \* IndexMap<BlockId, BlockStructure>: entries [key, value] in order
    dot,            \* what finalize returned
    addLog,         \* history: the add_block calls, in order
    \* ---- BatchSpec: a Stream under construction ----
    stream,         \* the Stream: [built, block], block the block being built
    envBlocks,      \* the blocks of the StreamContext that are closed, in order
    streamCall,     \* history: the last call on the stream, [op, arg]
    \* ---- TopicSpec: one source replica of rolling_top_words ----
    topicSource,    \* TopicSource: [id, num_replicas, num_gen, ended]
    count,          \* the counter of the watermark closure of add_timestamps
    item,           \* history: the last item of the source, [some, ts, topic]
    emitted         \* history: what add_timestamps emitted, in order

vars == <<metadata, missing_ends, buffer, startState, inNext, queue, rxAlive,
          impl, sstate, pending, result, mux, muxAlive, items_out, items_in,
          workload, quota, nItems, bufferFrom, out, endsConsumed, passedLog,
          sentLog, framesLost, acceptLog, recvLog, panicMsg,
          receivers, profiling, rx_items_in, handed, lastCall, rxQuota,
          envConfig, envHostId, file, cfgCall, cfgResult, fileRead,
          blocks, dot, addLog,
          stream, envBlocks, streamCall,
          topicSource, count, item, emitted>>

\* the variables of the StartBlock and of the channel that feeds it
networkVars == <<metadata, missing_ends, buffer, startState, inNext, queue, rxAlive,
                 impl, sstate, pending, result, mux, muxAlive, items_out, items_in,
                 workload, quota, nItems, bufferFrom, out, endsConsumed, passedLog,
                 sentLog, framesLost, acceptLog, recvLog, panicMsg>>
\* the variables of ReceiverSpec
receiverVars == <<receivers, profiling, rx_items_in, handed, lastCall, rxQuota>>
\* the variables of ConfigSpec
configVars == <<envConfig, envHostId, file, cfgCall, cfgResult, fileRead>>
\* the variables of GraphSpec
graphVars == <<blocks, dot, addLog>>
\* the variables of BatchSpec
batchVars == <<stream, envBlocks, streamCall>>
\* the variables of TopicSpec
topicVars == <<topicSource, count, item, emitted>>
\* the variables Spec leaves alone
restVars == <<receiverVars, configVars, graphVars, batchVars, topicVars>>
\* the variables ReceiverSpec leaves alone
receiverRest == <<networkVars, configVars, graphVars, batchVars, topicVars>>
\* the variables ConfigSpec leaves alone
configRest == <<networkVars, receiverVars, graphVars, batchVars, topicVars>>
\* the variables GraphSpec leaves alone
graphRest == <<networkVars, receiverVars, configVars, batchVars, topicVars>>
\* the variables BatchSpec leaves alone
batchRest == <<networkVars, receiverVars, configVars, graphVars, topicVars>>
\* the variables TopicSpec leaves alone
topicRest == <<networkVars, receiverVars, configVars, graphVars, batchVars>>

startVars == <<metadata, missing_ends, buffer, startState, inNext, bufferFrom,
               out, endsConsumed, recvLog, panicMsg>>
senderVars == <<impl, sstate, pending, result, passedLog, sentLog,
                quota, nItems, items_out>>

NoMessage == NetworkMessage(0, <<>>)
NoResult == [ok |-> TRUE, called |-> FALSE, endpoint |-> ReceiverEndpoint]
Ok == [ok |-> TRUE, called |-> TRUE, endpoint |-> ReceiverEndpoint]
\* NetworkSendError::Disconnected(endpoint)
Disconnected(endpoint) == [ok |-> FALSE, called |-> TRUE, endpoint |-> endpoint]

\* the upstream replicas of this run
Replicas == 1..metadata.num_prev

(***************************************************************************)
(* Helpers.                                                                *)
(***************************************************************************)
Min(a, b) == IF a <= b THEN a ELSE b

RECURSIVE SumItems(_)
\* the number of elements of a sequence of messages
SumItems(msgs) ==
    IF msgs = <<>> THEN 0 ELSE num_items(Head(msgs)) + SumItems(Tail(msgs))

RECURSIVE Flatten(_)
\* the elements of a sequence of messages, in order
Flatten(msgs) ==
    IF msgs = <<>> THEN <<>> ELSE Head(msgs).elements \o Flatten(Tail(msgs))

RECURSIVE CountKind(_, _)
\* how many elements of the sequence els are of the given kind
CountKind(els, kind) ==
    IF els = <<>> THEN 0
    ELSE (IF Head(els).kind = kind THEN 1 ELSE 0) + CountKind(Tail(els), kind)

RECURSIVE SelectFrom(_, _)
\* the elements of a history (a sequence of [el, from]) that came from r
SelectFrom(hist, r) ==
    IF hist = <<>> THEN <<>>
    ELSE (IF Head(hist).from = r THEN <<Head(hist).el>> ELSE <<>>)
         \o SelectFrom(Tail(hist), r)

RECURSIVE DropKind(_, _)
\* the sequence els without its elements of the given kind
DropKind(els, kind) ==
    IF els = <<>> THEN <<>>
    ELSE (IF Head(els).kind = kind THEN <<>> ELSE <<Head(els)>>)
         \o DropKind(Tail(els), kind)

IsPrefix(s, t) == Len(s) <= Len(t) /\ SubSeq(t, 1, Len(s)) = s

(***************************************************************************)
(* The messages an upstream replica can build.  Items are numbered per     *)
(* sender in the order they are produced, so that every Item is unique.    *)
(***************************************************************************)
WellNumbered(els, base) ==
    \A i \in 1..Len(els) :
        els[i].kind = "Item" => els[i].val = base + CountKind(SubSeq(els, 1, i), "Item")

MixedAlphabet(base) ==
    {Item(k) : k \in (base + 1)..(base + MaxBatch)}
        \cup {Watermark(ts) : ts \in 1..MaxTs} \cup {End, Terminate}

\* the batches replica r can send next
Batches(r) ==
    IF workload = "flood"
    THEN {<<Item(nItems[r] + 1)>>}
    ELSE {els \in UNION {[1..n -> MixedAlphabet(nItems[r])] : n \in 0..Min(MaxBatch, quota)} :
            WellNumbered(els, nItems[r])}

\* what a batch takes from the quota
Cost(els) == IF els = <<>> THEN 1 ELSE Len(els)

(***************************************************************************)
(* ReceiverSpec: two NetworkReceivers, "self" and "other", as in           *)
(* self.select(other) (network_channel.rs:91-105), each made by            *)
(* NetworkReceiver::new (lines 48-54) with its own ReceiverEndpoint.       *)
(***************************************************************************)
Receivers == {"self", "other"}

\* the Coord of the replica that owns the receiver "other"
OtherCoord == MaxPrev + 1

\* NetworkReceiver.receiver_endpoint
RxEndpoint(rx) ==
    IF rx = "self" THEN ReceiverEndpoint ELSE [coord |-> OtherCoord, prev_block_id |-> 0]

\* the (sender coord, receiver coord) pairs the profiler counts
RxPairs == Coords \X {DstCoord, OtherCoord}

NoCall == [op |-> "none", got |-> "none"]

\* The profiler is either enabled, and then the senders send MaxRxMessages
\* messages in all, or disabled, and then they send without end and nothing
\* is counted.
InitReceivers ==
    /\ profiling \in BOOLEAN
    /\ receivers = [rx \in Receivers |-> <<>>]
    /\ rx_items_in = [p \in RxPairs |-> [calls |-> 0, items |-> 0]]
    /\ handed = [p \in RxPairs |-> [calls |-> 0, items |-> 0]]
    /\ lastCall = NoCall
    /\ rxQuota = IF profiling THEN MaxRxMessages ELSE 0

\* the two receivers when another specification runs
ReceiversUnused == InitReceivers /\ profiling = FALSE

(***************************************************************************)
(* ConfigSpec: the environment of the process (config.rs).                 *)
(***************************************************************************)
\* Option<T>
None == [some |-> FALSE, val |-> 0]
Some(v) == [some |-> TRUE, val |-> v]

\* The value of an environment variable as std::env::var sees it: not
\* present, present but not valid Unicode, or a text.
EnvUnset == [kind |-> "unset", text |-> <<>>]
EnvNotUnicode == [kind |-> "not_unicode", text |-> <<>>]
EnvText(t) == [kind |-> "text", text |-> t]

\* A [[host]] table as written in a TOML text: num_cores, and the keys of
\* its ssh table ("absent": no ssh table at all).
HostTables == [num_cores : {0, 1}, ssh : {"absent", "password", "key_file", "both"}]

\* The TOML texts: one that is not TOML, one whose host table lacks a
\* required key, and the well-formed ones, a list of host tables.
TomlTexts ==
    {[kind |-> "garbage", host |-> <<>>], [kind |-> "missing_field", host |-> <<>>]}
        \cup {[kind |-> "hosts", host |-> h] :
                  h \in UNION {[1..n -> HostTables] : n \in 0..MaxHosts}}

\* a well-formed text kept in the file while NOIR_CONFIG holds another one
FileText == [kind |-> "hosts", host |-> <<[num_cores |-> 1, ssh |-> "key_file"]>>]

\* the file does not exist
NoFile == [kind |-> "missing", host |-> <<>>]

\* the characters of the texts of NOIR_HOST_ID
Digits == {"0", "1", "2"}
Signs == {"+", "-"}

\* the texts of NOIR_HOST_ID: at most one sign, then digits
HostIdTexts ==
    {sign \o digits :
        sign \in {<<>>} \cup {<<c>> : c \in Signs},
        digits \in UNION {[1..n -> Digits] : n \in 0..MaxDigits}}

\* no constructor called yet
NotCalled == [fn |-> "none", local |-> None, remote |-> FALSE]

\* RemoteConfig before its hosts are known
NoRemoteConfig == [host_id |-> None, hosts |-> <<>>]

\* no value returned yet
NotReturned == [status |-> "none", kind |-> "none", num_cores |-> 0,
                remote |-> NoRemoteConfig, error |-> "none", panic |-> "none"]

\* While NOIR_CONFIG holds a text the file is missing or holds FileText;
\* otherwise the file is missing or holds any of the texts.
InitConfig ==
    /\ envConfig \in {EnvUnset, EnvNotUnicode} \cup {EnvText(t) : t \in TomlTexts}
    /\ file \in IF envConfig.kind = "text" THEN {NoFile, FileText}
                ELSE {NoFile} \cup TomlTexts
    /\ envHostId \in {EnvUnset, EnvNotUnicode} \cup {EnvText(t) : t \in HostIdTexts}
    /\ cfgCall = NotCalled
    /\ cfgResult = NotReturned
    /\ fileRead = FALSE

\* the environment when another specification runs
ConfigUnused ==
    /\ envConfig = EnvUnset
    /\ file = NoFile
    /\ envHostId = EnvUnset
    /\ cfgCall = NotCalled
    /\ cfgResult = NotReturned
    /\ fileRead = FALSE

(***************************************************************************)
(* GraphSpec: JobGraphGenerator::new (graph_generator.rs:17-21).           *)
(***************************************************************************)
\* finalize has not run
NotFinalized == [done |-> FALSE, subgraphs |-> <<>>, connections |-> <<>>]

InitGraph ==
    /\ blocks = <<>>
    /\ dot = NotFinalized
    /\ addLog = <<>>

(***************************************************************************)
(* The Stream of BatchSpec (batch_mode.rs).                                *)
(***************************************************************************)
\* BatchMode::fixed(n), BatchMode::adaptive(n, max_delay)
BatchModeFixed(n) == [kind |-> "Fixed", n |-> n, max_delay |-> 0]
BatchModeAdaptive(n, max_delay) == [kind |-> "Adaptive", n |-> n, max_delay |-> max_delay]

\* the batch mode of the block of a Stream no batch_mode call was made on
BatchModeDefault == [kind |-> "Default", n |-> 0, max_delay |-> 0]

\* a block of the job: its id, its batch mode and how many operators it has
Block(id, batch_mode, operators) ==
    [id |-> id, batch_mode |-> batch_mode, operators |-> operators]

NoStream == [built |-> FALSE, block |-> Block(0, BatchModeDefault, 0)]
NoStreamCall == [op |-> "none", arg |-> BatchModeDefault]

\* a StreamContext::new(RuntimeConfig::local(4)) no stream was made from
InitBatch ==
    /\ stream = NoStream
    /\ envBlocks = <<>>
    /\ streamCall = NoStreamCall

(***************************************************************************)
(* The source replica of TopicSpec (rolling_top_words.rs).                 *)
(***************************************************************************)
NoItem == [some |-> FALSE, ts |-> 0, topic |-> "none"]

\* TopicSource::new(id, num_replicas) (lines 137-145) for one of the
\* replicas of the ParallelIteratorSource, and the closure's count = 0
\* (line 180)
InitTopic ==
    /\ topicSource \in [id : 0..(MaxReplicas - 1), num_replicas : 1..MaxReplicas,
                        num_gen : {0}, ended : {FALSE}]
    /\ topicSource.id < topicSource.num_replicas
    /\ count = 0
    /\ item = NoItem
    /\ emitted = <<>>

\* the source replica when another specification runs
TopicUnused == InitTopic /\ topicSource.num_replicas = 1

(***************************************************************************)
(* Init: StartBlock::new() (start.rs:23-30), a NetworkReceiver::new        *)
(* (network_channel.rs:48-54) with an empty queue, and one NetworkSender   *)
(* per upstream replica.                                                   *)
(***************************************************************************)
InitNetwork ==
    /\ workload \in {"mixed", "flood"}
    /\ metadata \in [coord : {DstCoord},
                     num_prev : IF workload = "flood" THEN {1} ELSE 0..MaxPrev]
    /\ missing_ends = 0
    /\ buffer = <<>>
    /\ startState = "new"
    /\ inNext = FALSE
    /\ queue = <<>>
    /\ rxAlive = TRUE
    /\ impl \in [Coords -> {"Local", "Remote"}]
    /\ \A r \in Coords : (r > metadata.num_prev \/ workload = "flood") => impl[r] = "Local"
    /\ sstate = [r \in Coords |-> "idle"]
    /\ pending = [r \in Coords |-> NoMessage]
    /\ result = [r \in Coords |-> NoResult]
    /\ mux = <<>>
    /\ muxAlive = TRUE
    /\ items_out = [p \in Coords \X {DstCoord} |-> [calls |-> 0, items |-> 0]]
    /\ items_in = [p \in Coords \X {DstCoord} |-> [calls |-> 0, items |-> 0]]
    /\ quota = IF workload = "flood" THEN CHANNEL_CAPACITY + FloodExtra ELSE MaxEvents
    /\ nItems = [r \in Coords |-> 0]
    /\ bufferFrom = <<>>
    /\ out = <<>>
    /\ endsConsumed = 0
    /\ passedLog = [r \in Coords |-> <<>>]
    /\ sentLog = [r \in Coords |-> <<>>]
    /\ framesLost = FALSE
    /\ acceptLog = <<>>
    /\ recvLog = <<>>
    /\ panicMsg = "none"

\* the StartBlock and its channel when another specification runs
NetworkUnused == InitNetwork /\ workload = "mixed" /\ metadata.num_prev = 0

Init == InitNetwork /\ ReceiversUnused /\ ConfigUnused /\ InitGraph /\ InitBatch /\ TopicUnused

(***************************************************************************)
(* The bounded channel (crate::channel, behind NetworkReceiver.receiver).  *)
(***************************************************************************)
\* The Sender half of the pair made by NetworkReceiver::new is the one the
\* upstream replicas (and the multiplexer's receiving task) send through.

\* a variant of NetworkReceiver::new with one more slot
QueueCapacity_OneMore == CHANNEL_CAPACITY + 1

\* NetworkReceiver::new: channel::bounded(CHANNEL_CAPACITY)
QueueCapacity == CHANNEL_CAPACITY

\* the queue has room for one more message
HasRoom == Len(queue) < QueueCapacity

\* some Sender half of the queue still exists: a local upstream replica
\* that has not dropped its NetworkSender, or the multiplexer's receiving
\* task when some upstream replica is remote
Connected ==
    \/ \E r \in Replicas : impl[r] = "Local" /\ sstate[r] # "dropped"
    \/ muxAlive /\ \E r \in Replicas : impl[r] = "Remote"

(***************************************************************************)
(* Profiler.                                                               *)
(***************************************************************************)
\* Profiler::items_out(from, to, n) / Profiler::items_in(from, to, n)
ProfilerAdd(counters, from, to, n) ==
    [counters EXCEPT ![<<from, to>>] = [calls |-> @.calls + 1, items |-> @.items + n]]

(***************************************************************************)
(* NetworkSender::send (network_channel.rs:153-168).                       *)
(* The profiler is updated first, whatever happens to the message.  Then   *)
(*   Local:  Sender::send on the bounded queue: Err when the Receiver is   *)
(*           gone, suspended while the queue is full, Ok once enqueued;    *)
(*   Remote: MultiplexingSender::send(receiver_endpoint, message): Err     *)
(*           carrying back the (endpoint, message) pair when the           *)
(*           multiplexer is gone, Ok once the frame is accepted.           *)
(***************************************************************************)
\* a variant of lines 155-159 that counts messages, not their elements
SendProfile_PerMessage(r, message) ==
    ProfilerAdd(items_out, message.sender, ReceiverEndpoint.coord, 1)

\* the profiler after the items_out call of send (lines 155-159)
SendProfile(r, message) ==
    ProfilerAdd(items_out, message.sender, ReceiverEndpoint.coord, num_items(message))

\* line 163: map_err(|_| Disconnected(self.receiver_endpoint))
LocalSendError(r) == Disconnected(ReceiverEndpoint)

\* a variant of line 166 that names the endpoint of the message's sender
RemoteSendError_SenderCoord(frame) ==
    Disconnected([coord |-> frame.message.sender, prev_block_id |-> 0])

\* line 166: map_err(|e| Disconnected(e.0.0)), e.0 = the (endpoint, message)
\* pair that was handed to the multiplexer
RemoteSendError(frame) == Disconnected(frame.endpoint)

\* the frame a remote send hands to the multiplexer (line 165)
RemoteFrame(r, message) == [endpoint |-> ReceiverEndpoint, message |-> message]

\* the environment's bookkeeping of a message built by replica r; a
\* replica whose send failed sends nothing more, so that a failed send
\* takes nothing from the quota
Produce(r, els, accepted) ==
    /\ quota' = IF accepted THEN quota - Cost(els) ELSE quota
    /\ nItems' = [nItems EXCEPT ![r] = @ + CountKind(els, "Item")]

\* a send through a Local sender, up to its return or its suspension
SendLocal(r, els) ==
    LET message == NetworkMessage(r, els) IN
    /\ impl[r] = "Local"
    /\ sstate[r] = "idle"
    /\ Produce(r, els, rxAlive)
    /\ items_out' = SendProfile(r, message)
    /\ passedLog' = [passedLog EXCEPT ![r] = Append(@, message)]
    /\ IF ~rxAlive
       THEN /\ result' = [result EXCEPT ![r] = LocalSendError(r)]
            /\ sstate' = [sstate EXCEPT ![r] = "failed"]
            /\ UNCHANGED <<queue, acceptLog, pending, sentLog>>
       ELSE IF HasRoom
       THEN /\ queue' = Append(queue, message)
            /\ acceptLog' = Append(acceptLog, message)
            /\ result' = [result EXCEPT ![r] = Ok]
            /\ sentLog' = [sentLog EXCEPT ![r] = Append(@, message)]
            /\ UNCHANGED <<sstate, pending>>
       ELSE /\ sstate' = [sstate EXCEPT ![r] = "blocked"]
            /\ pending' = [pending EXCEPT ![r] = message]
            /\ UNCHANGED <<queue, acceptLog, result, sentLog>>
    /\ UNCHANGED <<startVars, rxAlive, impl, mux, muxAlive, items_in, workload, restVars,
                   framesLost>>

\* a suspended Local send resumes: the queue has room, or the Receiver is gone
SendResume(r) ==
    /\ sstate[r] = "blocked"
    /\ ~rxAlive \/ HasRoom
    /\ IF ~rxAlive
       THEN /\ result' = [result EXCEPT ![r] = LocalSendError(r)]
            /\ sstate' = [sstate EXCEPT ![r] = "failed"]
            /\ UNCHANGED <<queue, acceptLog, sentLog>>
       ELSE /\ queue' = Append(queue, pending[r])
            /\ acceptLog' = Append(acceptLog, pending[r])
            /\ result' = [result EXCEPT ![r] = Ok]
            /\ sentLog' = [sentLog EXCEPT ![r] = Append(@, pending[r])]
            /\ sstate' = [sstate EXCEPT ![r] = "idle"]
    /\ pending' = [pending EXCEPT ![r] = NoMessage]
    /\ UNCHANGED <<startVars, rxAlive, impl, mux, muxAlive, items_in, items_out,
                   workload, restVars, quota, nItems, passedLog, framesLost>>

\* a send through a Remote sender
SendRemote(r, els) ==
    LET message == NetworkMessage(r, els)
        frame == RemoteFrame(r, message) IN
    /\ impl[r] = "Remote"
    /\ sstate[r] = "idle"
    /\ Produce(r, els, muxAlive)
    /\ items_out' = SendProfile(r, message)
    /\ passedLog' = [passedLog EXCEPT ![r] = Append(@, message)]
    /\ IF ~muxAlive
       THEN /\ result' = [result EXCEPT ![r] = RemoteSendError(frame)]
            /\ sstate' = [sstate EXCEPT ![r] = "failed"]
            /\ UNCHANGED <<mux, sentLog>>
       ELSE /\ mux' = Append(mux, frame)
            /\ result' = [result EXCEPT ![r] = Ok]
            /\ sentLog' = [sentLog EXCEPT ![r] = Append(@, message)]
            /\ UNCHANGED sstate
    /\ UNCHANGED <<startVars, queue, acceptLog, rxAlive, impl, pending, muxAlive,
                   items_in, workload, restVars, framesLost>>

\* the upstream replica ends and drops its NetworkSender
DropSender(r) ==
    /\ sstate[r] = "idle"
    /\ quota >= 1
    /\ quota' = quota - 1
    /\ sstate' = [sstate EXCEPT ![r] = "dropped"]
    /\ UNCHANGED <<startVars, queue, acceptLog, rxAlive, impl, pending, result, mux,
                   muxAlive, items_out, items_in, workload, restVars, nItems, passedLog, sentLog,
                   framesLost>>

(***************************************************************************)
(* The multiplexer: its receiving task pushes each frame into the queue of *)
(* the frame's endpoint, and waits while that queue is full.               *)
(***************************************************************************)
MuxDeliver ==
    /\ mux # <<>>
    /\ ~rxAlive \/ HasRoom
    /\ mux' = Tail(mux)
    /\ IF rxAlive
       THEN /\ queue' = Append(queue, Head(mux).message)
            /\ acceptLog' = Append(acceptLog, Head(mux).message)
            /\ UNCHANGED framesLost
       ELSE /\ framesLost' = TRUE
            /\ UNCHANGED <<queue, acceptLog>>
    /\ UNCHANGED <<startVars, rxAlive, senderVars, muxAlive, items_in, workload, restVars>>

\* the link to the peer host breaks: frames in flight are lost
MuxDisconnect ==
    /\ muxAlive
    /\ \E r \in Replicas : impl[r] = "Remote"
    /\ quota >= 1
    /\ quota' = quota - 1
    /\ muxAlive' = FALSE
    /\ mux' = <<>>
    /\ framesLost' = (framesLost \/ mux # <<>>)
    /\ UNCHANGED <<startVars, queue, acceptLog, rxAlive, impl, sstate, pending, result,
                   passedLog, sentLog, nItems, items_out, items_in, workload, restVars>>

(***************************************************************************)
(* StartBlock (start.rs).                                                  *)
(***************************************************************************)
\* setup (lines 38-48): take the receiver, missing_ends = metadata.num_prev
setup ==
    /\ startState = "new"
    /\ startState' = "ready"
    /\ missing_ends' = metadata.num_prev
    /\ UNCHANGED <<metadata, buffer, inNext, bufferFrom, out, endsConsumed, panicMsg,
                   recvLog, queue, acceptLog, rxAlive, senderVars, mux, muxAlive,
                   items_in, workload, restVars, framesLost>>

\* a variant of the test of line 53 that reports the end only when no
\* message is waiting
AllEndsReceived_NothingWaiting == missing_ends = 0 /\ queue = <<>>

\* a variant of the test of line 53 that is off by one
AllEndsReceived_OffByOne == missing_ends <= 1

\* line 53: all the previous blocks sent an end
AllEndsReceived == missing_ends = 0

\* a variant of line 68 that counts an End twice
DecrementEnds_ByTwo(n) == n - 2

\* a variant of line 68 that forgets the decrement
DecrementEnds_Forgotten(n) == n

\* line 68: self.missing_ends -= 1
DecrementEnds(n) == n - 1

\* a variant of line 61 that pushes the batch element by element at the
\* front of the buffer
AppendBatch_Reversed(b, els) == [i \in 1..Len(els) |-> els[Len(els) + 1 - i]] \o b

\* line 61: self.buffer.append(&mut buf.into())
AppendBatch(b, els) == b \o els

\* a variant of lines 63-65 that calls pop_back
PopIndex_Back(b) == Len(b)

\* lines 63-65: self.buffer.pop_front() takes the element at this index
PopIndex(b) == 1

\* the sequence b without its element at index i
RemoveAt(b, i) == SubSeq(b, 1, i - 1) \o SubSeq(b, i + 1, Len(b))

\* line 67: matches!(message, StreamElement::End)
IsEnd(message) == message.kind = "End"

\* line 58: self.buffer.is_empty()
BufferIsEmpty == buffer = <<>>

\* a variant of recv that passes over the messages with no elements when a
\* message with elements is waiting
RecvIndex_SkipEmpty(q) ==
    IF \E i \in 1..Len(q) : q[i].elements # <<>>
    THEN CHOOSE i \in 1..Len(q) :
             /\ q[i].elements # <<>>
             /\ \A j \in 1..(i - 1) : q[j].elements = <<>>
    ELSE 1

\* line 60: recv() takes the message at this index of the queue, the oldest
RecvIndex(q) == 1

\* a variant of recv that never sees the channel disconnected
RecvBlocks_WhenEmpty == queue = <<>>

\* NetworkReceiver::recv (network_channel.rs:72-74) suspends: the queue is
\* empty and a Sender half still exists
RecvBlocks == queue = <<>> /\ Connected

\* profile_message (network_channel.rs:57-69) on a received message
RecvProfile(message) ==
    ProfilerAdd(items_in, message.sender, ReceiverEndpoint.coord, num_items(message))

\* how many times next() has returned End
EndReturns == CountKind([i \in 1..Len(out) |-> out[i].el], "End")

\* one activation of next (lines 50-77); the recursive call of line 73 is
\* the next activation
next ==
    /\ startState = "ready"
    /\ IF AllEndsReceived
       THEN \* lines 53-56
            /\ EndReturns <= MaxEndReturns
            /\ out' = Append(out, [el |-> End, from |-> metadata.coord])
            /\ inNext' = FALSE
            /\ UNCHANGED <<missing_ends, buffer, bufferFrom, startState, endsConsumed,
                           panicMsg, queue, recvLog, items_in>>
       ELSE IF BufferIsEmpty /\ queue = <<>>
       THEN \* line 60: recv() is Err(RecvError) once every Sender is gone
            /\ ~RecvBlocks
            /\ startState' = "panicked"
            /\ panicMsg' = "RecvError"
            /\ UNCHANGED <<missing_ends, buffer, bufferFrom, inNext, out, endsConsumed,
                           queue, recvLog, items_in>>
       ELSE LET received == BufferIsEmpty
                buf == IF received THEN queue[RecvIndex(queue)] ELSE NoMessage
                buffer1 == AppendBatch(buffer, buf.elements)
                from1 == AppendBatch(bufferFrom,
                                     [i \in 1..Len(buf.elements) |-> buf.sender])
            IN  /\ queue' = IF received
                             THEN SubSeq(queue, RecvIndex(queue) + 1, Len(queue))
                             ELSE queue
                /\ recvLog' = IF received THEN Append(recvLog, buf) ELSE recvLog
                /\ items_in' = IF received THEN RecvProfile(buf) ELSE items_in
                /\ IF buffer1 = <<>>
                   THEN \* line 66: pop_front() is None
                        /\ startState' = "panicked"
                        /\ panicMsg' = "Previous block sent an empty message"
                        /\ UNCHANGED <<missing_ends, buffer, bufferFrom, inNext, out,
                                       endsConsumed>>
                   ELSE LET at == PopIndex(buffer1)
                            message == buffer1[at] IN
                        /\ buffer' = RemoveAt(buffer1, at)
                        /\ bufferFrom' = RemoveAt(from1, at)
                        /\ IF IsEnd(message)
                           THEN \* lines 67-74
                                /\ missing_ends' = DecrementEnds(missing_ends)
                                /\ endsConsumed' = endsConsumed + 1
                                /\ inNext' = TRUE
                                /\ UNCHANGED out
                           ELSE \* line 76
                                /\ out' = Append(out, [el |-> message, from |-> from1[at]])
                                /\ inNext' = FALSE
                                /\ UNCHANGED <<missing_ends, endsConsumed>>
                        /\ UNCHANGED <<startState, panicMsg>>
    /\ UNCHANGED <<metadata, rxAlive, acceptLog, senderVars, mux, muxAlive, workload, restVars,
                   framesLost>>

\* next() has returned End, or panicked: the replica's thread ends and the
\* StartBlock is dropped with its NetworkReceiver
LastReturned == IF out = <<>> THEN NoElement ELSE out[Len(out)].el

drop ==
    /\ \/ startState = "panicked"
       \/ startState = "ready" /\ ~inNext /\ LastReturned = End
    /\ startState' = "dropped"
    /\ rxAlive' = FALSE
    /\ queue' = <<>>
    /\ UNCHANGED <<metadata, missing_ends, buffer, inNext, bufferFrom, out, endsConsumed,
                   panicMsg, recvLog, acceptLog, senderVars, mux, muxAlive, items_in,
                   workload, restVars, framesLost>>

Next ==
    \/ setup
    \/ next
    \/ drop
    \/ \E r \in Replicas : \E els \in Batches(r) : quota >= Cost(els) /\ SendLocal(r, els)
    \/ \E r \in Replicas : \E els \in Batches(r) : quota >= Cost(els) /\ SendRemote(r, els)
    \/ \E r \in Replicas : SendResume(r)
    \/ \E r \in Replicas : DropSender(r)
    \/ MuxDeliver
    \/ MuxDisconnect

Spec == Init /\ [][Next]_vars

(***************************************************************************)
(* Fairness: the replica's thread keeps calling next(), the multiplexer    *)
(* keeps delivering accepted frames, and a sender suspended on the full    *)
(* queue is resumed when the queue has room.                               *)
(***************************************************************************)
Fairness ==
    /\ WF_vars(setup)
    /\ WF_vars(next)
    /\ WF_vars(MuxDeliver)
    /\ \A r \in Coords : SF_vars(SendResume(r))

LiveSpec == Init /\ [][Next]_vars /\ Fairness

(***************************************************************************)
(* Vocabulary of the properties.                                           *)
(***************************************************************************)
\* the elements replica r has sent (its sends that returned Ok), in order
Sent(r) == Flatten(sentLog[r])

\* the elements of replica r that next() has returned, in order
Returned(r) == SelectFrom(out, r)

\* the elements next() has returned, in order
OutElements == [i \in 1..Len(out) |-> out[i].el]

\* the set of the elements of the sequence els
Elements(els) == {els[i] : i \in 1..Len(els)}

\* how many times e occurs in the sequence els
Occ(els, e) == Cardinality({i \in 1..Len(els) : els[i] = e})

RECURSIVE WatermarkValues(_)
\* the timestamps of the Watermarks of a sequence of elements, in order
WatermarkValues(els) ==
    IF els = <<>> THEN <<>>
    ELSE (IF Head(els).kind = "Watermark" THEN <<Head(els).val>> ELSE <<>>)
         \o WatermarkValues(Tail(els))

NonDecreasing(ts) == \A i, j \in 1..Len(ts) : i <= j => ts[i] <= ts[j]

\* the last element of a non-empty sequence of numbers, 0 for the empty one
LastOr0(ts) == IF ts = <<>> THEN 0 ELSE ts[Len(ts)]

\* the End of replica r is the last element it sent
EndIsLast(r) == \A i \in 1..Len(Sent(r)) : IsEnd(Sent(r)[i]) => i = Len(Sent(r))

\* every replica has sent an End
AllEndsSent == \A r \in Replicas : CountKind(Sent(r), "End") >= 1

(***************************************************************************)
(* C1: next() returns End only after exactly num_prev End elements have    *)
(* been consumed from the receiver, and an End that came from an upstream  *)
(* replica is never itself returned: every End in the output is the        *)
(* StartBlock's own.                                                       *)
(***************************************************************************)
C1_EndAfterAllEnds ==
    /\ \A i \in 1..Len(out) : IsEnd(out[i].el) => out[i].from = metadata.coord
    /\ EndReturns > 0 => endsConsumed = metadata.num_prev

C1_Witness ==
    /\ metadata.num_prev >= 2
    /\ EndReturns > 0
    /\ endsConsumed >= 2

(***************************************************************************)
(* C2: when every replica's End is the last element it sends, no element   *)
(* is returned more often than it was sent and, once next() has returned   *)
(* End, every non-End element sent has been returned exactly once and      *)
(* nothing but End follows the first End.                                  *)
(***************************************************************************)
C2_ExactlyOnceBeforeEnd ==
    (\A r \in Replicas : EndIsLast(r)) =>
        /\ \A r \in Replicas : \A e \in (Elements(Sent(r)) \cup Elements(Returned(r))) \ {End} :
              /\ Occ(Returned(r), e) <= Occ(Sent(r), e)
              /\ EndReturns > 0 => Occ(Returned(r), e) = Occ(Sent(r), e)
        /\ \A i, j \in 1..Len(out) : (i < j /\ IsEnd(out[i].el)) => IsEnd(out[j].el)

C2_Witness ==
    /\ metadata.num_prev >= 2
    /\ \A r \in Replicas : EndIsLast(r)
    /\ EndReturns > 0
    /\ \E i \in 1..Len(out) : out[i].el.kind = "Item"

(***************************************************************************)
(* C3: next() returns End only when missing_ends = 0 and the buffer is     *)
(* empty, whatever the upstream replicas sent.                             *)
(***************************************************************************)
C3_EndOnlyWhenDrained ==
    EndReturns > 0 => (missing_ends = 0 /\ buffer = <<>>)

(***************************************************************************)
(* C4: once every upstream replica has sent its End, next() eventually     *)
(* returns End, as long as the consumer keeps calling next() (it has not   *)
(* panicked) and the channel delivers (no accepted frame was lost).        *)
(***************************************************************************)
C4_EventuallyEnd ==
    AllEndsSent ~> (EndReturns > 0 \/ panicMsg # "none" \/ framesLost)

C4_Witness ==
    /\ metadata.num_prev >= 2
    /\ AllEndsSent
    /\ EndReturns > 0
    /\ panicMsg = "none"
    /\ ~framesLost
    /\ \E r \in Replicas : impl[r] = "Remote"

\* the last watermark received from replica r within the history h
LastWatermarkFrom(h, r) == LastOr0(WatermarkValues(SelectFrom(h, r)))

\* the minimum of the last watermarks of all the replicas within h
MinLastWatermark(h) ==
    CHOOSE w \in {LastWatermarkFrom(h, r) : r \in Replicas} :
        \A r \in Replicas : w <= LastWatermarkFrom(h, r)

(***************************************************************************)
(* C5: with two or more upstream replicas, a Watermark(w) returned by      *)
(* next() has w equal to the minimum of the last watermark received from   *)
(* each upstream replica (0 for a replica that sent none yet), and w is    *)
(* greater than the last watermark returned before it.                     *)
(***************************************************************************)
C5_WatermarkIsMinimum ==
    metadata.num_prev >= 2 =>
        \A i \in 1..Len(out) :
            out[i].el.kind = "Watermark" =>
                /\ out[i].el.val = MinLastWatermark(SubSeq(out, 1, i))
                /\ out[i].el.val >
                       LastOr0(WatermarkValues(SubSeq(OutElements, 1, i - 1)))

(***************************************************************************)
(* C6: when each upstream replica sends watermarks with non-decreasing     *)
(* timestamps, the watermarks returned by next() are non-decreasing.       *)
(***************************************************************************)
C6_WatermarksMonotone ==
    (\A r \in Replicas : NonDecreasing(WatermarkValues(Sent(r)))) =>
        NonDecreasing(WatermarkValues(OutElements))

(***************************************************************************)
(* C7: per-sender FIFO: the elements of a replica that next() has returned *)
(* are, in order, the first non-End elements that replica sent.            *)
(***************************************************************************)
C7_PerSenderFifo ==
    \A r \in Replicas : IsPrefix(Returned(r), DropKind(Sent(r), "End"))

C7_Witness ==
    \E r, q \in Replicas :
        /\ r # q
        /\ Len(sentLog[r]) >= 2
        /\ Len(Returned(r)) >= 2
        /\ Len(Returned(q)) >= 1

\* the queue is within its capacity, holds every accepted message that was
\* not received yet, and a suspended send still holds its message
C8_QueueState ==
    /\ Len(queue) <= CHANNEL_CAPACITY
    /\ rxAlive => acceptLog = recvLog \o queue
    /\ \A r \in Coords :
          sstate[r] = "blocked" =>
              /\ passedLog[r] # <<>>
              /\ pending[r] = passedLog[r][Len(passedLog[r])]
              /\ Len(sentLog[r]) = Len(passedLog[r]) - 1

\* a send suspends only on a full queue and leaves it as it is; it resumes
\* only when the queue has room, putting its own message at the back; it
\* fails only when the receiver is gone
C8_QueueStep ==
    \A r \in Coords :
        /\ (sstate[r] # "blocked" /\ sstate'[r] = "blocked") =>
              (Len(queue) = CHANNEL_CAPACITY /\ queue' = queue)
        /\ (sstate[r] = "blocked" /\ sstate'[r] = "idle") =>
              (Len(queue) < CHANNEL_CAPACITY /\ queue' = Append(queue, pending[r]))
        /\ (sstate[r] = "blocked" /\ sstate'[r] = "failed") => ~rxAlive

(***************************************************************************)
(* C8: the queue never holds more than CHANNEL_CAPACITY messages; a local  *)
(* send is suspended exactly when the queue is full and resumes only when  *)
(* the queue has room again, putting its own message at the back; while    *)
(* the receiver lives no accepted message is dropped or overwritten.       *)
(***************************************************************************)
C8_QueueBounded == []C8_QueueState /\ [][C8_QueueStep]_vars

C8_Witness ==
    /\ Len(queue) = CHANNEL_CAPACITY
    /\ \E r \in Replicas : sstate[r] = "idle" /\ Len(sentLog[r]) > CHANNEL_CAPACITY

\* the last send of replica r returned an error
SendFailed(r) == result[r].called /\ ~result[r].ok

(***************************************************************************)
(* C9: a send fails only when the receiving side is gone (the Receiver of  *)
(* the queue for a Local sender, the multiplexer for a Remote one), and    *)
(* the error is Disconnected(e) with e the sender's receiver_endpoint.     *)
(***************************************************************************)
C9_SendError ==
    \A r \in Coords :
        SendFailed(r) =>
            /\ result[r] = Disconnected(ReceiverEndpoint)
            /\ impl[r] = "Local" => ~rxAlive
            /\ impl[r] = "Remote" => ~muxAlive

C9_Witness ==
    \E r, q \in Replicas :
        /\ impl[r] = "Local" /\ SendFailed(r)
        /\ impl[q] = "Remote" /\ SendFailed(q)

(***************************************************************************)
(* C10: every call of send records one items_out for (message.sender,      *)
(* receiver_endpoint.coord) with the message's number of elements: the     *)
(* counter of a pair holds the number of sends and the sum of the element  *)
(* counts of the messages passed to send, whether the send succeeded,      *)
(* failed or is still suspended.                                           *)
(***************************************************************************)
C10_ItemsOut ==
    \A r \in Coords :
        items_out[<<r, ReceiverEndpoint.coord>>] =
            [calls |-> Len(passedLog[r]), items |-> SumItems(passedLog[r])]

C10_Witness ==
    \E r \in Replicas :
        /\ SendFailed(r)
        /\ Len(passedLog[r]) >= 2
        /\ \E i \in 1..Len(passedLog[r]) : num_items(passedLog[r][i]) >= 2

(***************************************************************************)
(* ReceiverSpec: the receiving operations of NetworkReceiver               *)
(* (network_channel.rs:56-105).  The senders of both receivers stay        *)
(* alive, so a receive fails only with Empty or Timeout.                   *)
(***************************************************************************)
\* the messages a sender can put into a receiver's queue
RxMessages ==
    IF profiling
    THEN {NetworkMessage(c, [i \in 1..n |-> Item(i)]) : c \in Coords, n \in 0..MaxBatch}
    ELSE {NetworkMessage(1, <<Item(1)>>)}

\* a sender puts a message into the queue of receiver rx
RxSend(rx, message) ==
    /\ IF profiling THEN rxQuota > 0 ELSE Len(receivers[rx]) < MaxReady
    /\ Len(receivers[rx]) < QueueCapacity
    /\ receivers' = [receivers EXCEPT ![rx] = Append(@, message)]
    /\ rxQuota' = IF profiling THEN rxQuota - 1 ELSE rxQuota
    /\ UNCHANGED <<profiling, rx_items_in, handed, lastCall, receiverRest>>

\* Result<NetworkMessage, E> of the receiving calls of crate::channel
RecvOk(message) == [ok |-> TRUE, message |-> message, err |-> "none"]
RecvErr(e) == [ok |-> FALSE, message |-> NoMessage, err |-> e]

\* Receiver::try_recv / Receiver::recv_timeout of crate::channel on the
\* queue of rx: its first message, or the error e when it is empty
ChannelPoll(rx, e) ==
    IF receivers[rx] = <<>> THEN RecvErr(e) ELSE RecvOk(Head(receivers[rx]))

\* profile_message (lines 56-69): the profiler after the call
profile_message(rx, message) ==
    IF message.ok /\ profiling
    THEN ProfilerAdd(rx_items_in, message.message.sender, RxEndpoint(rx).coord,
                     num_items(message.message))
    ELSE rx_items_in

\* the call op on receiver rx returns message to the consumer
Return(op, rx, message) ==
    /\ receivers' = IF message.ok THEN [receivers EXCEPT ![rx] = Tail(@)] ELSE receivers
    /\ handed' = IF message.ok /\ profiling
                 THEN ProfilerAdd(handed, message.message.sender, RxEndpoint(rx).coord,
                                  num_items(message.message))
                 ELSE handed
    /\ lastCall' = [op |-> op, got |-> IF message.ok THEN rx ELSE message.err]
    /\ UNCHANGED <<profiling, rxQuota, receiverRest>>

\* recv (lines 71-74); Receiver::recv waits while the queue is empty
recv(rx) ==
    /\ receivers[rx] # <<>>
    /\ LET message == ChannelPoll(rx, "Disconnected") IN
          /\ rx_items_in' = profile_message(rx, message)
          /\ Return("recv", rx, message)

\* try_recv (lines 76-79)
try_recv(rx) ==
    LET message == ChannelPoll(rx, "Empty") IN
    /\ rx_items_in' = profile_message(rx, message)
    /\ Return("try_recv", rx, message)

\* recv_timeout (lines 81-84)
recv_timeout(rx) ==
    LET message == ChannelPoll(rx, "Timeout") IN
    /\ rx_items_in' = profile_message(rx, message)
    /\ Return("recv_timeout", rx, message)

\* a variant of line 95 that polls self first and other only when self has
\* no message
SelectReady_SelfFirst ==
    IF receivers["self"] # <<>> THEN {"self"}
    ELSE {rx \in Receivers : receivers[rx] # <<>>}

\* line 95: self.receiver.select(&other.receiver) returns the first message
\* of one of the receivers that have one
SelectReady == {rx \in Receivers : receivers[rx] # <<>>}

\* select (lines 86-96) returning the message of receiver pick; it waits
\* while neither receiver has a message.  The SelectResult of the channel
\* is returned as it is.
select(pick) ==
    /\ pick \in SelectReady
    /\ Return("select", pick, RecvOk(Head(receivers[pick])))
    /\ UNCHANGED rx_items_in

\* select_timeout (lines 98-105)
select_timeout ==
    /\ IF SelectReady = {}
       THEN Return("select_timeout", "self", RecvErr("Timeout"))
       ELSE \E pick \in SelectReady :
                Return("select_timeout", pick, RecvOk(Head(receivers[pick])))
    /\ UNCHANGED rx_items_in

ReceiverNext ==
    \/ \E rx \in Receivers : \E message \in RxMessages : RxSend(rx, message)
    \/ \E rx \in Receivers : recv(rx)
    \/ \E rx \in Receivers : try_recv(rx)
    \/ \E rx \in Receivers : recv_timeout(rx)
    \/ \E pick \in Receivers : select(pick)
    \/ select_timeout

ReceiverInit ==
    InitReceivers /\ NetworkUnused /\ ConfigUnused /\ InitGraph /\ InitBatch /\ TopicUnused

ReceiverSpec == ReceiverInit /\ [][ReceiverNext]_vars

(***************************************************************************)
(* C11: with the profiler enabled, every message handed to the consumer    *)
(* by recv, try_recv, recv_timeout, select or select_timeout is recorded   *)
(* by one items_in(message.sender, receiver coord, num_items): for every   *)
(* pair the profiler holds the number of messages handed over and the sum  *)
(* of their element counts.                                                *)
(***************************************************************************)
C11_ItemsInRecorded == profiling => rx_items_in = handed

(***************************************************************************)
(* Fairness of select: the select of crate::channel has the eventual       *)
(* fairness property (lines 88-90), so a receiver that is ready again and  *)
(* again while the consumer keeps calling select is chosen again and       *)
(* again.                                                                  *)
(***************************************************************************)
ReceiverFairness == \A pick \in Receivers : SF_vars(select(pick))

ReceiverLiveSpec == ReceiverInit /\ [][ReceiverNext]_vars /\ ReceiverFairness

\* both receivers have a message ready
BothReady == \A rx \in Receivers : receivers[rx] # <<>>

\* the consumer's last call was a select that returned the message of rx
Chose(rx) == lastCall = [op |-> "select", got |-> rx]

ReceivedFrom(r) == Flatten(SelectSeq(recvLog, LAMBDA message : message.sender = r))

\* the End elements of replica r still in the buffer
EndsBufferedFrom(r) ==
    Cardinality({i \in 1..Len(buffer) : bufferFrom[i] = r /\ IsEnd(buffer[i])})

\* the End elements of replica r that next() has popped from the buffer
EndsPoppedFrom(r) == CountKind(ReceivedFrom(r), "End") - EndsBufferedFrom(r)

(***************************************************************************)
(* C13: a second End from the same upstream replica is a fatal error and   *)
(* is never counted toward missing_ends: missing_ends is the number of     *)
(* replicas whose End has not been popped yet, popping two Ends of one     *)
(* replica panics, and next() never returns End while some upstream        *)
(* replica has not sent its End.                                           *)
(***************************************************************************)
C13_DuplicateEndFatal ==
    /\ \A r \in Replicas : EndsPoppedFrom(r) >= 2 => panicMsg # "none"
    /\ startState # "new" =>
          missing_ends = Cardinality({r \in Replicas : EndsPoppedFrom(r) = 0})
    /\ EndReturns > 0 => AllEndsSent

(***************************************************************************)
(* C14: a Terminate received from an upstream replica is returned by       *)
(* next() unchanged and in its position in the order received, it is not   *)
(* dropped (once next() has returned End every Terminate received has been *)
(* returned), and it does not change missing_ends, which only the Ends     *)
(* popped decrease.                                                        *)
(***************************************************************************)
C14_TerminateForwarded ==
    /\ \A r \in Replicas : IsPrefix(Returned(r), DropKind(ReceivedFrom(r), "End"))
    /\ startState # "new" => missing_ends = metadata.num_prev - endsConsumed
    /\ EndReturns > 0 =>
          \A r \in Replicas :
              CountKind(Returned(r), "Terminate") = CountKind(ReceivedFrom(r), "Terminate")

(***************************************************************************)
(* ConfigSpec: the constructors of RuntimeConfig (config.rs:201-308) and   *)
(* CommandLineOptions::validate (lines 316-329).                           *)
(***************************************************************************)
\* The HostConfig that serde builds from a host table: an absent ssh table
\* is SSHConfig::default(), with neither password nor key_file
\* (lines 120-160).  password and key_file stand for is_some().
HostConfig(table) ==
    [num_cores |-> table.num_cores,
     ssh |-> [password |-> table.ssh \in {"password", "both"},
              key_file |-> table.ssh \in {"key_file", "both"}]]

\* toml::from_str::<RemoteConfig> (lines 238, 279): an error for a text
\* that is not TOML or lacks a required key; host_id is skipped by serde
\* and starts as None (lines 104-117)
toml_from_str(text) ==
    IF text.kind = "hosts"
    THEN [ok |-> TRUE,
          config |-> [host_id |-> None,
                      hosts |-> [i \in 1..Len(text.host) |-> HostConfig(text.host[i])]]]
    ELSE [ok |-> FALSE, config |-> NoRemoteConfig]

DigitValue(c) == CASE c = "0" -> 0 [] c = "1" -> 1 [] c = "2" -> 2

RECURSIVE DecimalValue(_)
\* the number written by a sequence of digits
DecimalValue(ds) ==
    IF ds = <<>> THEN 0
    ELSE 10 * DecimalValue(SubSeq(ds, 1, Len(ds) - 1)) + DigitValue(ds[Len(ds)])

\* HostId::from_str (line 259), HostId an unsigned integer: an optional
\* "+", then one digit or more; None stands for Err
HostIdFromStr(text) ==
    LET ds == IF text # <<>> /\ text[1] = "+" THEN Tail(text) ELSE text IN
    IF ds # <<>> /\ \A i \in 1..Len(ds) : ds[i] \in Digits
    THEN Some(DecimalValue(ds))
    ELSE None

\* the values a constructor call ends with
Panicked(msg) == [NotReturned EXCEPT !.status = "panic", !.panic = msg]
Failed(error) == [NotReturned EXCEPT !.status = "Err", !.error = error]
ReturnedLocal(n) == [NotReturned EXCEPT !.status = "Ok", !.kind = "Local", !.num_cores = n]
ReturnedRemote(config) ==
    [NotReturned EXCEPT !.status = "Ok", !.kind = "Remote", !.remote = config]

\* config_from_env (lines 273-284): Some(config) when std::env::var gives
\* the text of NOIR_CONFIG, a panic when that text does not parse, None
\* when std::env::var is Err (not present, or not valid Unicode)
config_from_env ==
    IF envConfig.kind = "text"
    THEN LET parsed == toml_from_str(envConfig.text) IN
         [panic |-> ~parsed.ok, some |-> parsed.ok, config |-> parsed.config]
    ELSE [panic |-> FALSE, some |-> FALSE, config |-> NoRemoteConfig]

\* line 263: host_id >= num_hosts
HostIdTooLarge(host_id, num_hosts) == host_id >= num_hosts

\* host_id_from_env (lines 253-271)
host_id_from_env(num_hosts) ==
    IF envHostId.kind # "text"
    THEN [panic |-> "none", value |-> None]
    ELSE LET host_id == HostIdFromStr(envHostId.text) IN
         IF ~host_id.some
         THEN [panic |-> "Invalid value for environment NOIR_HOST_ID", value |-> None]
         ELSE IF HostIdTooLarge(host_id.val, num_hosts)
         THEN [panic |-> "Invalid value for environment NOIR_HOST_ID: value too large",
               value |-> None]
         ELSE [panic |-> "none", value |-> Some(host_id.val)]

\* a variant of line 243 that rejects a host with either of the two
HasBothSecrets_Either(host) == host.ssh.password \/ host.ssh.key_file

\* line 243: host.ssh.password.is_some() && host.ssh.key_file.is_some()
HasBothSecrets(host) == host.ssh.password /\ host.ssh.key_file

\* remote (lines 232-251): the value it ends with, and whether it read
\* (or tried to read) the file
RemoteOutcome ==
    LET fromEnv == config_from_env IN
    IF fromEnv.panic
    THEN [result |-> Panicked("Invalid configuration from environment"), read |-> FALSE]
    ELSE IF ~fromEnv.some /\ file.kind = "missing"
    THEN [result |-> Failed("IO"), read |-> TRUE]
    ELSE LET parsed == IF fromEnv.some THEN [ok |-> TRUE, config |-> fromEnv.config]
                       ELSE toml_from_str(file)
             read == ~fromEnv.some
             hosts == parsed.config.hosts IN
         IF ~parsed.ok
         THEN [result |-> Failed("Serialization"), read |-> read]
         ELSE IF \E i \in 1..Len(hosts) : HasBothSecrets(hosts[i])
         THEN [result |-> Failed("Invalid"), read |-> read]
         ELSE LET host_id == host_id_from_env(Len(hosts)) IN
              IF host_id.panic # "none"
              THEN [result |-> Panicked(host_id.panic), read |-> read]
              ELSE [result |-> ReturnedRemote([parsed.config EXCEPT
                                                  !.host_id = host_id.value]),
                    read |-> read]

\* Result::unwrap (line 214)
Unwrap(r) ==
    IF r.status = "Err"
    THEN [Panicked("called Result::unwrap() on an Err value") EXCEPT !.error = r.error]
    ELSE r

\* a variant of line 320 that only asks for one of the two options
validate_AtLeastOne(opt) ==
    IF ~(opt.remote \/ opt.local.some)
    THEN "Use one of --remote or --local"
    ELSE IF opt.local.some /\ opt.local.val = 0
    THEN "The number of cores should be positive"
    ELSE "none"

\* CommandLineOptions::validate (lines 319-328): the panic it ends with
validate(opt) ==
    IF ~(opt.remote # opt.local.some)
    THEN "Use one of --remote or --local"
    ELSE IF opt.local.some /\ opt.local.val = 0
    THEN "The number of cores should be positive"
    ELSE "none"

\* the command lines: --local N or not, --remote PATH or not
CommandLineOptions ==
    [local : {None} \cup {Some(n) : n \in 0..MaxCores}, remote : BOOLEAN]

\* from_args (lines 203-218)
from_args(opt) ==
    /\ cfgCall = NotCalled
    /\ cfgCall' = [fn |-> "from_args", local |-> opt.local, remote |-> opt.remote]
    /\ IF validate(opt) # "none"
       THEN cfgResult' = Panicked(validate(opt)) /\ UNCHANGED fileRead
       ELSE IF opt.local.some
       THEN cfgResult' = ReturnedLocal(opt.local.val) /\ UNCHANGED fileRead
       ELSE IF opt.remote
       THEN cfgResult' = Unwrap(RemoteOutcome.result) /\ fileRead' = RemoteOutcome.read
       ELSE cfgResult' = Panicked("unreachable: Invalid configuration")
            /\ UNCHANGED fileRead
    /\ UNCHANGED <<envConfig, envHostId, file, configRest>>

\* local (lines 220-223)
local(num_cores) ==
    /\ cfgCall = NotCalled
    /\ cfgCall' = [fn |-> "local", local |-> Some(num_cores), remote |-> FALSE]
    /\ cfgResult' = ReturnedLocal(num_cores)
    /\ UNCHANGED <<envConfig, envHostId, file, fileRead, configRest>>

\* remote (lines 232-251)
remote ==
    /\ cfgCall = NotCalled
    /\ cfgCall' = [fn |-> "remote", local |-> None, remote |-> TRUE]
    /\ cfgResult' = RemoteOutcome.result
    /\ fileRead' = RemoteOutcome.read
    /\ UNCHANGED <<envConfig, envHostId, file, configRest>>

\* RuntimeConfig::host_id (lines 302-307) of a returned configuration
host_id(config) == IF config.kind = "Local" THEN Some(0) ELSE config.remote.host_id

ConfigNext ==
    \/ \E opt \in CommandLineOptions : from_args(opt)
    \/ \E num_cores \in 0..MaxCores : local(num_cores)
    \/ remote

ConfigInit ==
    InitConfig /\ NetworkUnused /\ ReceiversUnused /\ InitGraph /\ InitBatch /\ TopicUnused

ConfigSpec == ConfigInit /\ [][ConfigNext]_vars

(***************************************************************************)
(* Vocabulary of the properties of ConfigSpec.                             *)
(***************************************************************************)
\* the text remote loads: NOIR_CONFIG when it is set, else the file
LoadedText == IF envConfig.kind # "unset" THEN envConfig.text ELSE file

\* the configuration loaded parses
Parsable ==
    /\ envConfig.kind = "unset" => file.kind # "missing"
    /\ envConfig.kind # "not_unicode"
    /\ toml_from_str(LoadedText).ok

\* the hosts of the configuration loaded
LoadedHosts == toml_from_str(LoadedText).config.hosts

\* some host of the configuration loaded sets both password and key_file
SomeHostHasBoth ==
    \E i \in 1..Len(LoadedHosts) :
        LoadedHosts[i].ssh.password /\ LoadedHosts[i].ssh.key_file

\* remote returned Ok(Remote(config)) with the hosts of the text loaded
ReturnedLoadedHosts ==
    /\ cfgResult.status = "Ok"
    /\ cfgResult.kind = "Remote"
    /\ cfgResult.remote.hosts = LoadedHosts

\* NOIR_HOST_ID holds a text that is no host id of the configuration loaded
BadHostId ==
    /\ envHostId.kind = "text"
    /\ \/ ~HostIdFromStr(envHostId.text).some
       \/ HostIdFromStr(envHostId.text).val >= Len(LoadedHosts)

(***************************************************************************)
(* C15 as stated: remote returns Err(ConfigError::Invalid) exactly when    *)
(* the configuration loaded has a host with both password and key_file;    *)
(* otherwise, for a parsable configuration, it returns Ok(Remote(config))  *)
(* with the host list as loaded.                                           *)
(***************************************************************************)
C15_InvalidIffBothSecrets ==
    (cfgCall.fn = "remote" /\ Parsable) =>
        /\ cfgResult = Failed("Invalid") <=> SomeHostHasBoth
        /\ ~SomeHostHasBoth => ReturnedLoadedHosts

(***************************************************************************)
(* C15, amended: remote returns Err(ConfigError::Invalid) exactly when the *)
(* configuration loaded has a host with both password and key_file;        *)
(* otherwise, for a parsable configuration, it returns Ok(Remote(config))  *)
(* with the host list as loaded, unless NOIR_HOST_ID holds a text that     *)
(* does not parse or is not below the number of hosts: then it panics.     *)
(***************************************************************************)
C15_InvalidIffBothSecrets_Amended ==
    (cfgCall.fn = "remote" /\ Parsable) =>
        /\ cfgResult = Failed("Invalid") <=> SomeHostHasBoth
        /\ (~SomeHostHasBoth /\ ~BadHostId) => ReturnedLoadedHosts
        /\ (~SomeHostHasBoth /\ BadHostId) => cfgResult.status = "panic"

C15_Witness ==
    /\ cfgCall.fn = "remote"
    /\ envConfig.kind = "text"
    /\ Len(LoadedHosts) = 2
    /\ ~LoadedHosts[1].ssh.password /\ LoadedHosts[1].ssh.key_file
    /\ LoadedHosts[2].ssh.password /\ LoadedHosts[2].ssh.key_file
    /\ cfgResult = Failed("Invalid")

(***************************************************************************)
(* C16: no construction path produces a RuntimeConfig with num_cores = 0:  *)
(* a Local configuration returned has num_cores >= 1 and every host of a   *)
(* Remote configuration returned has num_cores >= 1.                       *)
(***************************************************************************)
C16_ZeroCoresRejected ==
    cfgResult.status = "Ok" =>
        /\ cfgResult.kind = "Local" => cfgResult.num_cores >= 1
        /\ cfgResult.kind = "Remote" =>
              \A i \in 1..Len(cfgResult.remote.hosts) :
                  cfgResult.remote.hosts[i].num_cores >= 1

\* the command line of the from_args call had only --local, only --remote
OnlyLocal == cfgCall.fn = "from_args" /\ cfgCall.local.some /\ ~cfgCall.remote
OnlyRemote == cfgCall.fn = "from_args" /\ ~cfgCall.local.some /\ cfgCall.remote

\* from_args aborted in the branch marked unreachable (line 216)
ReachedUnreachable == cfgResult.panic = "unreachable: Invalid configuration"

(***************************************************************************)
(* C17 as stated: from_args aborts with both or with neither of --local    *)
(* and --remote; with only --local N it returns a Local configuration with *)
(* N cores; with only --remote PATH it returns the Remote configuration;   *)
(* the branch marked unreachable is never reached.                         *)
(***************************************************************************)
C17_ExactlyOneOption ==
    cfgCall.fn = "from_args" =>
        /\ cfgCall.local.some = cfgCall.remote => cfgResult.status = "panic"
        /\ OnlyLocal => cfgResult = ReturnedLocal(cfgCall.local.val)
        /\ OnlyRemote => cfgResult.status = "Ok" /\ cfgResult.kind = "Remote"
        /\ ~ReachedUnreachable

(***************************************************************************)
(* C17, amended: from_args aborts with both or with neither of --local and *)
(* --remote; with only --local N it returns a Local configuration with N   *)
(* cores when N >= 1 and aborts when N = 0; with only --remote PATH it     *)
(* returns the Remote configuration that remote(PATH) returns and aborts   *)
(* when remote(PATH) fails or panics; the branch marked unreachable is     *)
(* never reached.                                                          *)
(***************************************************************************)
C17_ExactlyOneOption_Amended ==
    cfgCall.fn = "from_args" =>
        /\ cfgCall.local.some = cfgCall.remote => cfgResult.status = "panic"
        /\ (OnlyLocal /\ cfgCall.local.val >= 1) =>
              cfgResult = ReturnedLocal(cfgCall.local.val)
        /\ (OnlyLocal /\ cfgCall.local.val = 0) => cfgResult.status = "panic"
        /\ OnlyRemote =>
              IF RemoteOutcome.result.status = "Ok"
              THEN cfgResult = RemoteOutcome.result /\ cfgResult.kind = "Remote"
              ELSE cfgResult.status = "panic"
        /\ ~ReachedUnreachable

C17_Witness ==
    /\ cfgCall.fn = "from_args"
    /\ cfgCall.local = Some(MaxCores)
    /\ cfgCall.remote
    /\ cfgResult = Panicked("Use one of --remote or --local")

\* remote reached host_id_from_env: the configuration loaded parses and no
\* host has both password and key_file
HostIdLooked == cfgCall.fn = "remote" /\ Parsable /\ ~SomeHostHasBoth

\* remote returned a configuration whose host id is the given Option
ReturnedHostId(id) == cfgResult.status = "Ok" /\ host_id(cfgResult) = id

\* the text of NOIR_HOST_ID parses to a host id below the number of hosts
GoodHostId ==
    /\ envHostId.kind = "text"
    /\ HostIdFromStr(envHostId.text).some
    /\ HostIdFromStr(envHostId.text).val < Len(LoadedHosts)

\* the host id of a Remote configuration returned is None or below the
\* number of its hosts
HostIdInRange ==
    (cfgResult.status = "Ok" /\ cfgResult.kind = "Remote" /\ host_id(cfgResult).some) =>
        host_id(cfgResult).val \in 0..(Len(cfgResult.remote.hosts) - 1)

(***************************************************************************)
(* C18: the host id of a remote configuration, when present, is            *)
(* in [0, num_hosts): with NOIR_HOST_ID unset it is None, with a value     *)
(* that parses to less than the number of hosts it is that value, and with *)
(* any other value (one that does not parse, or is not less than the       *)
(* number of hosts) startup aborts.                                        *)
(***************************************************************************)
C18_HostIdInRange ==
    /\ HostIdInRange
    /\ HostIdLooked =>
          /\ envHostId.kind = "unset" => ReturnedHostId(None)
          /\ GoodHostId => ReturnedHostId(HostIdFromStr(envHostId.text))
          /\ (envHostId.kind # "unset" /\ ~GoodHostId) => cfgResult.status = "panic"

\* remote ran, called directly or by from_args
RemoteRan == cfgCall.fn = "remote" \/ (OnlyRemote /\ validate(cfgCall) = "none")

\* the configuration returned is the one NOIR_CONFIG holds
ConfigFromEnv ==
    /\ cfgResult.error # "IO"
    /\ cfgResult.status = "Ok" =>
          cfgResult.remote.hosts = toml_from_str(envConfig.text).config.hosts

(***************************************************************************)
(* C19: when NOIR_CONFIG is set, remote takes the configuration            *)
(* from the variable and never reads the file, whether the file exists or  *)
(* not; the file is read only when NOIR_CONFIG is unset.                   *)
(***************************************************************************)
C19_EnvBeforeFile ==
    RemoteRan =>
        /\ envConfig.kind # "unset" => (~fileRead /\ ConfigFromEnv)
        /\ fileRead => envConfig.kind = "unset"

(***************************************************************************)
(* GraphSpec: JobGraphGenerator (graph_generator.rs).  A BlockStructure is *)
(* the sequence of its operators; of an operator the generator reads the   *)
(* title, the kind, the receivers and the connections.                     *)
(***************************************************************************)
BlockIds == 0..MaxBlockId

\* the operators with no receiver: a title, and one connection to block 1
\* or none
PlainOperators ==
    [title : {"a", "b"}, kind : {"Operator"}, receivers : {<<>>},
     connections : {<<>>, <<[to_block_id |-> 1, data_type |-> "T", strategy |-> "Random"]>>}]

\* a source followed by an operator with a receiver from block 0
TwoOperators ==
    << [title |-> "a", kind |-> "Source", receivers |-> <<>>, connections |-> <<>>],
       [title |-> "b", kind |-> "Sink",
        receivers |-> <<[previous_block_id |-> 0, data_type |-> "U"]>>,
        connections |-> <<>>] >>

\* the BlockStructures passed to add_block
BlockStructures == {<<operator>> : operator \in PlainOperators} \cup {TwoOperators}

\* the keys of an IndexMap
Keys(map) == {map[i].key : i \in 1..Len(map)}

\* IndexMap::insert (line 27): the value of an entry with an equal key is
\* replaced where it is, else the entry is added at the end
IndexMapInsert(map, key, value) ==
    IF key \in Keys(map)
    THEN [i \in 1..Len(map) |->
             IF map[i].key = key THEN [key |-> key, value |-> value] ELSE map[i]]
    ELSE Append(map, [key |-> key, value |-> value])

\* IndexMap::get (line 52)
IndexMapGet(map, key) == (CHOOSE i \in 1..Len(map) : map[i].key = key)

\* a variant of sort_keys that leaves the map in insertion order
sort_keys_Unsorted(map) == map

\* IndexMap::sort_keys (line 32): the entries by ascending key
sort_keys(map) ==
    [i \in 1..Len(map) |->
        map[CHOOSE j \in 1..Len(map) :
                Cardinality({k \in 1..Len(map) : map[k].key < map[j].key}) = i - 1]]

RECURSIVE Concat(_)
\* the concatenation of a sequence of sequences
Concat(seqs) == IF seqs = <<>> THEN <<>> ELSE Head(seqs) \o Concat(Tail(seqs))

\* operator_id (lines 169-172): "block{block_id}_operator{index}"
operator_id(block_id, index) == [block |-> block_id, operator |-> index]

\* gen_subgraph (lines 58-109): the cluster of a block, its nodes and the
\* connection of each operator to the next one
gen_subgraph(block_id, block) ==
    [cluster |-> block_id,
     label |-> block_id,
     nodes |-> [n \in 1..Len(block) |->
                   [id |-> operator_id(block_id, n - 1),
                    label |-> block[n].title,
                    shape |-> CASE block[n].kind = "Operator" -> "box"
                                [] block[n].kind = "Sink" -> "house"
                                [] block[n].kind = "Source" -> "invhouse"]],
     connections |-> [n \in 1..(Len(block) - 1) |->
                         [from |-> operator_id(block_id, n - 1),
                          to |-> operator_id(block_id, n)]]]

\* gen_subgraphs (lines 46-56): one subgraph per key, in the order of the map
gen_subgraphs(map) ==
    [i \in 1..Len(map) |->
        gen_subgraph(map[i].key, map[IndexMapGet(map, map[i].key)].value)]

\* lines 113-127 of gen_connections: the receivers map, (previous block,
\* block) -> (index, data type), the last insertion of a key winning
ReceiversOf(map) ==
    LET inserts ==
            Concat([i \in 1..Len(map) |->
                Concat([n \in 1..Len(map[i].value) |->
                    [r \in 1..Len(map[i].value[n].receivers) |->
                        [key |-> <<map[i].value[n].receivers[r].previous_block_id,
                                   map[i].key>>,
                         index |-> n - 1,
                         data_type |-> map[i].value[n].receivers[r].data_type]]])])
    IN  [found |-> {inserts[k].key : k \in 1..Len(inserts)},
         last |-> [key \in {inserts[k].key : k \in 1..Len(inserts)} |->
                      inserts[CHOOSE k \in 1..Len(inserts) :
                                  /\ inserts[k].key = key
                                  /\ \A m \in (k + 1)..Len(inserts) : inserts[m].key # key]]]

\* lines 141-152: the style of a ConnectionStrategy
StrategyStyle(strategy) ==
    CASE strategy = "OnlyOne" -> "dotted"
      [] strategy = "Random" -> "solid"
      [] strategy = "GroupBy" -> "dashed"
      [] strategy = "All" -> "bold"

\* gen_connections (lines 111-167): one edge per connection of each
\* operator, in the order of the map
gen_connections(map) ==
    LET receiversOf == ReceiversOf(map) IN
    Concat([i \in 1..Len(map) |->
        Concat([n \in 1..Len(map[i].value) |->
            [c \in 1..Len(map[i].value[n].connections) |->
                LET connection == map[i].value[n].connections[c]
                    key == <<map[i].key, connection.to_block_id>>
                    known == key \in receiversOf.found IN
                [from |-> operator_id(map[i].key, n - 1),
                 to |-> operator_id(connection.to_block_id,
                                    IF known THEN receiversOf.last[key].index ELSE 0),
                 data_type |-> IF known THEN receiversOf.last[key].data_type
                               ELSE connection.data_type,
                 style |-> StrategyStyle(connection.strategy)]]])])

\* a variant of add_block that keeps the structure registered first
add_block_KeepFirst(block_id, structure) ==
    /\ ~dot.done
    /\ Len(addLog) < MaxAdds
    /\ blocks' = IF block_id \in Keys(blocks) THEN blocks
                 ELSE IndexMapInsert(blocks, block_id, structure)
    /\ addLog' = Append(addLog, [block_id |-> block_id, structure |-> structure])
    /\ UNCHANGED <<dot, graphRest>>

\* add_block (lines 23-28)
add_block(block_id, structure) ==
    /\ ~dot.done
    /\ Len(addLog) < MaxAdds
    /\ blocks' = IndexMapInsert(blocks, block_id, structure)
    /\ addLog' = Append(addLog, [block_id |-> block_id, structure |-> structure])
    /\ UNCHANGED <<dot, graphRest>>

\* finalize (lines 30-44); it takes the generator by value
finalize ==
    /\ ~dot.done
    /\ blocks' = sort_keys(blocks)
    /\ dot' = [done |-> TRUE,
               subgraphs |-> gen_subgraphs(sort_keys(blocks)),
               connections |-> gen_connections(sort_keys(blocks))]
    /\ UNCHANGED <<addLog, graphRest>>

GraphNext ==
    \/ \E block_id \in BlockIds : \E structure \in BlockStructures :
           add_block(block_id, structure)
    \/ finalize

GraphInit ==
    InitGraph /\ NetworkUnused /\ ReceiversUnused /\ ConfigUnused /\ InitBatch /\ TopicUnused

GraphSpec == GraphInit /\ [][GraphNext]_vars

\* the block ids passed to add_block so far
AddedIds == {addLog[i].block_id : i \in 1..Len(addLog)}

\* the structure passed by the last add_block call for block_id
LastAdded(block_id) ==
    addLog[CHOOSE i \in 1..Len(addLog) :
               /\ addLog[i].block_id = block_id
               /\ \A j \in (i + 1)..Len(addLog) : addLog[j].block_id # block_id].structure

(***************************************************************************)
(* C20: after any sequence of add_block calls the generator holds exactly  *)
(* one structure per distinct block id, the one passed by the last         *)
(* add_block call for that id, and finalize renders exactly one subgraph   *)
(* per distinct block id, the one of that structure.                       *)
(***************************************************************************)
C20_OneStructurePerBlock ==
    /\ Keys(blocks) = AddedIds
    /\ Len(blocks) = Cardinality(AddedIds)
    /\ \A i \in 1..Len(blocks) : blocks[i].value = LastAdded(blocks[i].key)
    /\ dot.done =>
          /\ Len(dot.subgraphs) = Cardinality(AddedIds)
          /\ \A block_id \in AddedIds :
                \E i \in 1..Len(dot.subgraphs) :
                    dot.subgraphs[i] = gen_subgraph(block_id, LastAdded(block_id))

C20_Witness ==
    /\ dot.done
    /\ Len(addLog) = MaxAdds
    /\ Cardinality(AddedIds) = 2
    /\ addLog[1].block_id = addLog[3].block_id
    /\ addLog[1].structure # addLog[3].structure
    /\ addLog[1].block_id > addLog[2].block_id

RECURSIVE BlocksAfter(_)
\* the map of a generator after the add_block calls of a log, from new
BlocksAfter(log) ==
    IF log = <<>> THEN <<>>
    ELSE IndexMapInsert(BlocksAfter(SubSeq(log, 1, Len(log) - 1)),
                        log[Len(log)].block_id, log[Len(log)].structure)

\* what finalize returns for a generator given the add_block calls of a log
FinalizeOf(log) ==
    [done |-> TRUE,
     subgraphs |-> gen_subgraphs(sort_keys(BlocksAfter(log))),
     connections |-> gen_connections(sort_keys(BlocksAfter(log)))]

\* the logs that pass the pairs of a log to add_block in another order
Reorderings(log) ==
    {[i \in 1..Len(log) |-> log[f[i]]] :
        f \in {g \in [1..Len(log) -> 1..Len(log)] :
                  \A i, j \in 1..Len(log) : g[i] = g[j] => i = j}}

\* the output is the same for every order of the add_block calls
OrderIndependent == \A log \in Reorderings(addLog) : FinalizeOf(log) = dot

\* subgraphs by ascending block id, edges by ascending id of the block they
\* leave
AscendingBlockIds ==
    /\ \A i, j \in 1..Len(dot.subgraphs) :
           i < j => dot.subgraphs[i].cluster < dot.subgraphs[j].cluster
    /\ \A i, j \in 1..Len(dot.connections) :
           i < j => dot.connections[i].from.block <= dot.connections[j].from.block

\* no block id was passed to add_block with two different structures
OneStructurePerId ==
    \A i, j \in 1..Len(addLog) :
        addLog[i].block_id = addLog[j].block_id =>
            addLog[i].structure = addLog[j].structure

(***************************************************************************)
(* C21: finalize is deterministic and independent of the registration     *)
(* order: generators given the same (block id, structure) pairs by        *)
(* add_block in different orders produce the same output, with subgraphs   *)
(* and inter-block edges listed in ascending block id order.               *)
(***************************************************************************)
C21_OrderIndependent ==
    dot.done => (OrderIndependent /\ AscendingBlockIds)

\* C21 for pairs in which no block id has two different structures
C21_OrderIndependent_Amended ==
    dot.done =>
        /\ AscendingBlockIds
        /\ OneStructurePerId => OrderIndependent

C21_Witness ==
    /\ dot.done
    /\ Len(addLog) = MaxAdds
    /\ OneStructurePerId
    /\ Cardinality(AddedIds) = MaxAdds
    /\ addLog[1].block_id > addLog[2].block_id
    /\ \E i \in 1..Len(dot.connections) :
           /\ dot.connections[i].to = operator_id(1, 1)
           /\ dot.connections[i].data_type = "U"

(***************************************************************************)
(* BatchSpec: Stream::batch_mode and an operator that starts a new block   *)
(* (batch_mode.rs holds their tests; StreamContext and Stream themselves   *)
(* are outside the files at hand).                                         *)
(***************************************************************************)
\* the batch modes the caller passes
BatchModes ==
    {BatchModeFixed(n) : n \in 1..MaxBatchSize}
        \cup {BatchModeAdaptive(n, d) : n \in 1..MaxBatchSize, d \in 1..MaxBatchSize}

\* a variant of the batch mode of a new block that starts from the default
NewBlockBatchMode_Default(previous) == BatchModeDefault

\* the batch mode of a block that follows the block previous
NewBlockBatchMode(previous) == previous.batch_mode

\* env.stream(source) (lines 12-14): a Stream on block 0, which holds the
\* source
StreamContext_stream ==
    /\ ~stream.built
    /\ stream' = [built |-> TRUE, block |-> Block(0, BatchModeDefault, 1)]
    /\ streamCall' = [op |-> "stream", arg |-> BatchModeDefault]
    /\ UNCHANGED <<envBlocks, batchRest>>

\* stream.batch_mode(batch_mode) (lines 14-15, 22-23)
batch_mode(b) ==
    /\ stream.built
    /\ stream' = [stream EXCEPT !.block.batch_mode = b]
    /\ streamCall' = [op |-> "batch_mode", arg |-> b]
    /\ UNCHANGED <<envBlocks, batchRest>>

\* stream.group_by(|_| 0) (lines 33-34): the block is closed and the stream
\* continues on a new block
group_by ==
    /\ stream.built
    /\ Len(envBlocks) + 1 < MaxBlocks
    /\ envBlocks' = Append(envBlocks, stream.block)
    /\ stream' = [stream EXCEPT
                     !.block = Block(stream.block.id + 1,
                                     NewBlockBatchMode(stream.block), 1)]
    /\ streamCall' = [op |-> "group_by", arg |-> BatchModeDefault]
    /\ UNCHANGED batchRest

BatchNext ==
    \/ StreamContext_stream
    \/ \E b \in BatchModes : batch_mode(b)
    \/ group_by

BatchInit ==
    InitBatch /\ NetworkUnused /\ ReceiversUnused /\ ConfigUnused /\ InitGraph /\ TopicUnused

BatchSpec == BatchInit /\ [][BatchNext]_vars

\* the block the stream's block follows
PreviousBlock == envBlocks[Len(envBlocks)]

(***************************************************************************)
(* C22: batch_mode(b) sets the batch mode of the stream's current block    *)
(* to b, and a block created afterwards by an operator that starts a new   *)
(* block (group_by) has the batch mode of the block it follows.            *)
(***************************************************************************)
C22_BatchModeInherited ==
    /\ streamCall.op = "batch_mode" => stream.block.batch_mode = streamCall.arg
    /\ streamCall.op = "group_by" =>
          /\ stream.block.id # PreviousBlock.id
          /\ stream.block.batch_mode = PreviousBlock.batch_mode

C22_Witness ==
    /\ streamCall.op = "group_by"
    /\ Len(envBlocks) = 1
    /\ PreviousBlock.batch_mode = BatchModeAdaptive(MaxBatchSize, MaxBatchSize)

(***************************************************************************)
(* TopicSpec: one replica of the source of the rolling_top_words example   *)
(* and the add_timestamps operator behind it (rolling_top_words.rs).       *)
(***************************************************************************)
\* two of the TOPICS (lines 10-61)
Topics == {"#love", "#instagood"}

\* a data record tagged with its event-time timestamp; of the record the
\* model keeps the timestamp
Timestamped(topic, ts) == [kind |-> "Timestamped", val |-> ts]

\* line 156: the timestamp of the item generated next, in milliseconds
ItemTimestamp(source) == source.num_gen * source.num_replicas + source.id

\* a variant of the closure of lines 181-188 that asks for a watermark on
\* the item after every 10th
WatermarkGen_OneLate(n, ts) == IF n % 10 = 1 THEN Some(ts) ELSE None

\* the watermark closure of add_timestamps (lines 181-188), count being
\* already incremented
WatermarkGen(n, ts) == IF n % 10 = 0 THEN Some(ts) ELSE None

\* add_timestamps on one item: the item with the timestamp the first closure
\* gives it (line 179), then the watermark the second closure asks for
AddTimestamps(it, n) ==
    <<Timestamped(it.topic, it.ts)>> \o
        (IF WatermarkGen(n, it.ts).some
         THEN <<Watermark(WatermarkGen(n, it.ts).val)>> ELSE <<>>)

\* TopicSource::next (lines 151-161) returns an item, which add_timestamps
\* (lines 179-189) takes
TopicSource_next(topic) ==
    /\ ~topicSource.ended
    /\ topicSource.num_gen < MaxGen
    /\ item' = [some |-> TRUE, ts |-> ItemTimestamp(topicSource), topic |-> topic]
    /\ topicSource' = [topicSource EXCEPT !.num_gen = @ + 1]
    /\ count' = count + 1
    /\ emitted' = emitted \o AddTimestamps(item', count')
    /\ UNCHANGED topicRest

\* TopicSource::next (lines 152-154) returns None: more than ten seconds
\* have passed since the source was made
TopicSource_end ==
    /\ ~topicSource.ended
    /\ topicSource' = [topicSource EXCEPT !.ended = TRUE]
    /\ item' = NoItem
    /\ UNCHANGED <<count, emitted, topicRest>>

TopicNext ==
    \/ \E topic \in Topics : TopicSource_next(topic)
    \/ TopicSource_end

TopicInit ==
    InitTopic /\ NetworkUnused /\ ReceiversUnused /\ ConfigUnused /\ InitGraph /\ InitBatch

TopicSpec == TopicInit /\ [][TopicNext]_vars

\* the timestamps of the elements of a kind among the elements emitted
EmittedTs(kind) ==
    LET idx == {i \in 1..Len(emitted) : emitted[i].kind = kind}
        nth(k) == CHOOSE i \in idx : Cardinality({j \in idx : j < i}) = k - 1
    IN  [k \in 1..Cardinality(idx) |-> emitted[nth(k)].val]

\* the positions in emitted of the items
ItemPositions == {i \in 1..Len(emitted) : emitted[i].kind = "Timestamped"}

\* the item at position i is the n-th item
ItemNumber(i) == Cardinality({j \in ItemPositions : j <= i})

\* the item at position i is followed by a watermark with its timestamp
WatermarkFollows(i) ==
    /\ i < Len(emitted)
    /\ emitted[i + 1] = Watermark(emitted[i].val)

(***************************************************************************)
(* C23: the Watermark timestamps a source replica of rolling_top_words     *)
(* emits are non-decreasing: the item timestamps are strictly increasing,  *)
(* the k-th item (k from 0) has timestamp k * num_replicas + id, and a     *)
(* watermark with the item's timestamp follows every 10th item and no      *)
(* other.                                                                  *)
(***************************************************************************)
C23_WatermarksNonDecreasing ==
    /\ NonDecreasing(EmittedTs("Watermark"))
    /\ \A i, j \in 1..Len(EmittedTs("Timestamped")) :
           i < j => EmittedTs("Timestamped")[i] < EmittedTs("Timestamped")[j]
    /\ \A k \in 1..Len(EmittedTs("Timestamped")) :
           EmittedTs("Timestamped")[k] =
               (k - 1) * topicSource.num_replicas + topicSource.id
    /\ \A i \in ItemPositions :
           WatermarkFollows(i) <=> ItemNumber(i) % 10 = 0
    /\ \A i \in 1..Len(emitted) :
           emitted[i].kind = "Watermark" => (i > 1 /\ (i - 1) \in ItemPositions)

C23_Witness ==
    /\ Len(EmittedTs("Watermark")) = 2
    /\ topicSource.num_replicas = MaxReplicas
    /\ topicSource.id = 1
    /\ EmittedTs("Watermark")[1] < EmittedTs("Watermark")[2]

(***************************************************************************)
(* StartBlock: the claims about a disconnected channel, the buffer,        *)
(* missing_ends, the calls after End and the empty message.                *)
(***************************************************************************)
\* next() is about to receive and the channel is disconnected: every Sender
\* half is gone and the queue is empty
RecvDisconnected ==
    /\ startState = "ready"
    /\ missing_ends > 0
    /\ buffer = <<>>
    /\ queue = <<>>
    /\ ~Connected

\* a step of next(): it returned an element, took a message, popped an End
\* or panicked
NextActed ==
    \/ out' # out
    \/ recvLog' # recvLog
    \/ endsConsumed' # endsConsumed
    \/ startState = "ready" /\ startState' = "panicked"

\* next() failed on the receive error
RecvErrorPanic == startState \in {"panicked", "dropped"} /\ panicMsg = "RecvError"

(***************************************************************************)
(* C24: when the receiver's channel is disconnected (all senders gone,     *)
(* queue empty) while missing_ends > 0 and the buffer is empty, next()     *)
(* panics on the receive error: it does not return End or anything else,   *)
(* and it does not block forever.                                          *)
(***************************************************************************)
C24_DisconnectPanics ==
    /\ [][(RecvDisconnected /\ NextActed) =>
              (startState' = "panicked" /\ panicMsg' = "RecvError" /\ out' = out)]_vars
    /\ (RecvDisconnected ~> RecvErrorPanic)

C24_Witness ==
    /\ RecvErrorPanic
    /\ metadata.num_prev = MaxPrev
    /\ endsConsumed = 1
    /\ ~muxAlive
    /\ \E r \in Replicas : impl[r] = "Local" /\ sstate[r] = "dropped"

\* the elements of the message received last that are still to be popped
\* make up the buffer
BufferOfLastMessage ==
    IF recvLog = <<>> THEN buffer = <<>>
    ELSE LET last == recvLog[Len(recvLog)].elements IN
         /\ Len(buffer) <= Len(last)
         /\ buffer = SubSeq(last, Len(last) - Len(buffer) + 1, Len(last))
         /\ \A i \in 1..Len(bufferFrom) : bufferFrom[i] = recvLog[Len(recvLog)].sender

(***************************************************************************)
(* C25: next() receives from the network only when its buffer is empty;    *)
(* while the buffer holds elements next() pops the front element and takes *)
(* no message, so the buffer never holds elements of more than one         *)
(* received message.                                                       *)
(***************************************************************************)
C25_RecvOnlyWhenEmpty ==
    /\ [][recvLog' # recvLog => buffer = <<>>]_vars
    /\ [][(buffer # <<>> /\ NextActed) =>
              (queue' = queue /\ buffer' = Tail(buffer))]_vars
    /\ []BufferOfLastMessage

\* the steps that change missing_ends: setup sets it to num_prev, and an End
\* popped from the buffer takes 1 off a positive value
MissingEndsStep ==
    \/ startState = "new" /\ startState' = "ready" /\ missing_ends' = metadata.num_prev
    \/ /\ missing_ends > 0
       /\ missing_ends' = missing_ends - 1
       /\ endsConsumed' = endsConsumed + 1

(***************************************************************************)
(* C26: missing_ends never underflows: it is always in 0..num_prev, once   *)
(* setup has set it it changes only by a decrement of exactly 1 for an End *)
(* popped from the buffer, never from 0, and with num_prev = 0 next()      *)
(* returns End without receiving.                                          *)
(***************************************************************************)
C26_NoUnderflow ==
    /\ [](missing_ends \in 0..metadata.num_prev)
    /\ [][missing_ends' # missing_ends => MissingEndsStep]_vars
    /\ [][endsConsumed' # endsConsumed => missing_ends' = missing_ends - 1]_vars
    /\ [](metadata.num_prev = 0 =>
             /\ recvLog = <<>>
             /\ endsConsumed = 0
             /\ \A i \in 1..Len(out) : out[i].el = End)

C26_Witness ==
    /\ metadata.num_prev = MaxPrev
    /\ missing_ends = 0
    /\ endsConsumed = MaxPrev
    /\ buffer = <<End>>
    /\ EndReturns >= 1

(***************************************************************************)
(* C27: once next() has returned End, every later call of next() returns   *)
(* End and leaves the receiver, the buffer and missing_ends as they are:   *)
(* no further message is taken from the channel.                           *)
(***************************************************************************)
C27_EndIsSticky ==
    [][(EndReturns >= 1 /\ NextActed) =>
           /\ out' = Append(out, [el |-> End, from |-> metadata.coord])
           /\ UNCHANGED <<queue, rxAlive, recvLog, buffer, missing_ends, startState>>]_vars

C27_Witness ==
    /\ EndReturns = 2
    /\ startState = "ready"
    /\ queue # <<>>
    /\ buffer # <<>>

\* next() is about to receive and the oldest message waiting has no element
EmptyMessageNext ==
    /\ startState = "ready"
    /\ missing_ends > 0
    /\ buffer = <<>>
    /\ queue # <<>>
    /\ Head(queue).elements = <<>>

\* next() failed on the empty message
EmptyMessagePanic ==
    /\ startState \in {"panicked", "dropped"}
    /\ panicMsg = "Previous block sent an empty message"

(***************************************************************************)
(* C28: when the StartBlock receives a NetworkMessage with zero elements   *)
(* while its buffer is empty and missing_ends > 0, next() panics with      *)
(* 'Previous block sent an empty message': it returns nothing and does not *)
(* go on to the next message.                                              *)
(***************************************************************************)
C28_EmptyMessagePanics ==
    /\ [][(EmptyMessageNext /\ NextActed) =>
              /\ startState' = "panicked"
              /\ panicMsg' = "Previous block sent an empty message"
              /\ recvLog' = Append(recvLog, Head(queue))
              /\ out' = out]_vars
    /\ [](\A i \in 1..Len(recvLog) :
              recvLog[i].elements = <<>> => (i = Len(recvLog) /\ EmptyMessagePanic))

C28_Witness ==
    /\ EmptyMessagePanic
    /\ startState = "panicked"
    /\ Len(recvLog) = 2
    /\ queue # <<>>

====
